---------------------------- MODULE Spec2Model ----------------------------
(***************************************************************************)
(* Midpoint-rule integrator and its command-line driver                    *)
(* (Assignments/HW3/main.cpp).                                             *)
(*                                                                         *)
(* The program computes in C++ `float`: IEEE-754 binary32, round to        *)
(* nearest, ties to even.  The model keeps that arithmetic bit for bit: a  *)
(* float is a record [k, s, m, e] standing for (-1)^s * m * 2^e, with a    *)
(* 24-bit significand m, or an infinity or a NaN.  Every operation is      *)
(* computed on integers that stay below 2^31.                              *)
(***************************************************************************)
EXTENDS Integers, Sequences, FiniteSets, TLC

(***************************************************************************)
(* binary32                                                                *)
(***************************************************************************)
\* Significand width of `float` (the hidden bit included).
MantBits == 24
\* Exponent of the least significant bit of a subnormal: 2^-149.
EMin == -149
\* Exponent of the least significant bit of the largest finite float.
EMax == 104

Pow2(j) == 2 ^ j

Max(p, q) == IF p >= q THEN p ELSE q

Abs(v) == IF v < 0 THEN -v ELSE v

Fin(s, m, e) == [k |-> "fin", s |-> s, m |-> m, e |-> e]

Zero(s) == Fin(s, 0, EMin)

Inf(s) == [k |-> "inf", s |-> s, m |-> 0, e |-> 0]

NaN == [k |-> "nan", s |-> 0, m |-> 0, e |-> 0]

IsZero(x) == x.k = "fin" /\ x.m = 0

\* Number of bits of M, for 0 <= M < 2^30.
BitLen(M) == CHOOSE L \in 0..30 : M < Pow2(L) /\ (L = 0 \/ M >= Pow2(L - 1))

\* A finite result, or the infinity an overflow rounds to.
Pack(s, m, e) == IF e > EMax THEN Inf(s) ELSE Fin(s, m, e)

\* (-1)^s * M * 2^e rounded to the float nearest to it, ties to even, when
\* sh bits of M are to go.
RoundShift(s, M, e, sh) ==
    IF sh <= 0 THEN Pack(s, M * Pow2(-sh), e + sh)
    ELSE IF sh > 30 THEN Zero(s)
    ELSE LET q    == M \div Pow2(sh)
             r    == M % Pow2(sh)
             half == Pow2(sh - 1)
             m1   == IF r > half \/ (r = half /\ q % 2 = 1) THEN q + 1 ELSE q
         IN  IF m1 = Pow2(MantBits)
             THEN Pack(s, Pow2(MantBits - 1), e + sh + 1)
             ELSE Pack(s, m1, e + sh)

\* The float nearest to (-1)^s * M * 2^e, ties to even (0 <= M < 2^30): the
\* bits beyond the 24 of the significand go, and those below 2^EMin.  A
\* caller that dropped non-zero low bits has set M's last bit and left at
\* least two bits below the 24 kept ones, so the rounding is the exact one.
RoundVal(s, M, e) ==
    IF M = 0 THEN Zero(s)
    ELSE CHOOSE r \in {RoundShift(s, M, e, sh) :
                          sh \in {Max(BitLen(M) - MantBits, EMin - e)}} : TRUE

\* RoundVal on the values of its arguments, each computed once.
RoundPack(s, M, e) ==
    CHOOSE r \in {RoundVal(s1, M1, e1) : s1 \in {s}, M1 \in {M}, e1 \in {e}} : TRUE

\* int -> float conversion (|v| < 2^30).
FromInt(v) == RoundPack(IF v < 0 THEN 1 ELSE 0, Abs(v), 0)

\* Unary minus.
FNeg(x) == IF x.k = "nan" THEN x ELSE [x EXCEPT !.s = 1 - x.s]

FAbs(x) == IF x.k = "nan" THEN x ELSE [x EXCEPT !.s = 0]

\* operator== on floats: a NaN equals nothing, the two zeros are equal.
FEq(x, y) ==
    /\ x.k # "nan"
    /\ y.k # "nan"
    /\ \/ x = y
       \/ IsZero(x) /\ IsZero(y)

\* M shifted right by d bits, the last bit set when a non-zero bit was lost.
ShiftJam(M, d) ==
    IF d > 27 THEN 1
    ELSE LET q == M \div Pow2(d)
         IN  IF M % Pow2(d) # 0 /\ q % 2 = 0 THEN q + 1 ELSE q

\* Signed significand.
SMant(x, M) == IF x.s = 1 THEN -M ELSE M

\* x + y of two finite non-zero floats: three guard bits and a sticky bit.
AddFin(x, y) ==
    LET hi == IF x.e >= y.e THEN x ELSE y
        lo == IF x.e >= y.e THEN y ELSE x
        S  == SMant(hi, hi.m * 8) + SMant(lo, ShiftJam(lo.m * 8, hi.e - lo.e))
    IN  IF S = 0 THEN Zero(0)
        ELSE RoundPack(IF S < 0 THEN 1 ELSE 0, Abs(S), hi.e - 3)

\* x + y.
AddVal(x, y) ==
    IF x.k = "nan" \/ y.k = "nan" THEN NaN
    ELSE IF x.k = "inf"
         THEN IF y.k = "inf" /\ y.s # x.s THEN NaN ELSE x
    ELSE IF y.k = "inf" THEN y
    ELSE IF x.m = 0 /\ y.m = 0
         THEN Zero(IF x.s = 1 /\ y.s = 1 THEN 1 ELSE 0)
    ELSE IF x.m = 0 THEN y
    ELSE IF y.m = 0 THEN x
    ELSE AddFin(x, y)

\* x + y on the values of its arguments, each computed once.
FAdd(x, y) == CHOOSE r \in {AddVal(x1, y1) : x1 \in {x}, y1 \in {y}} : TRUE

\* x - y.
FSub(x, y) == FAdd(x, FNeg(y))

\* A finite non-zero float with its significand shifted up to 24 bits.
Norm(x) ==
    CHOOSE r \in {[m |-> x.m * Pow2(up), e |-> x.e - up] :
                     up \in {MantBits - BitLen(x.m)}} : TRUE

\* The product of two normalised floats, with sign s: the 48-bit product by
\* 12-bit halves.
MulNorm(nx, ny, s) ==
    LET ah  == nx.m \div 4096
        al  == nx.m % 4096
        bh  == ny.m \div 4096
        bl  == ny.m % 4096
        mid == ah * bl + al * bh
        lof == al * bl + (mid % 4096) * 4096
        hi  == ah * bh + (mid \div 4096) + (lof \div Pow2(24))
        lo  == lof % Pow2(24)
        top == hi * 16 + (lo \div Pow2(20))
        M   == IF lo % Pow2(20) # 0 /\ top % 2 = 0 THEN top + 1 ELSE top
    IN  RoundPack(s, M, nx.e + ny.e + 20)

\* x * y of two finite non-zero floats.
MulFin(x, y) ==
    CHOOSE r \in {MulNorm(nx, ny, (x.s + y.s) % 2) :
                     nx \in {Norm(x)}, ny \in {Norm(y)}} : TRUE

\* x * y.
MulVal(x, y) ==
    IF x.k = "nan" \/ y.k = "nan" THEN NaN
    ELSE IF x.k = "inf" \/ y.k = "inf"
         THEN IF IsZero(x) \/ IsZero(y) THEN NaN ELSE Inf((x.s + y.s) % 2)
    ELSE IF x.m = 0 \/ y.m = 0 THEN Zero((x.s + y.s) % 2)
    ELSE MulFin(x, y)

\* x * y on the values of its arguments, each computed once.
FMul(x, y) == CHOOSE r \in {MulVal(x1, y1) : x1 \in {x}, y1 \in {y}} : TRUE

\* The quotient of two normalised floats, with sign s: 28 quotient bits,
\* seven at a time.
DivNorm(nx, ny, s) ==
    LET q0 == nx.m \div ny.m
        r0 == nx.m % ny.m
        q1 == q0 * 128 + ((r0 * 128) \div ny.m)
        r1 == (r0 * 128) % ny.m
        q2 == q1 * 128 + ((r1 * 128) \div ny.m)
        r2 == (r1 * 128) % ny.m
        q3 == q2 * 128 + ((r2 * 128) \div ny.m)
        r3 == (r2 * 128) % ny.m
        q4 == q3 * 128 + ((r3 * 128) \div ny.m)
        r4 == (r3 * 128) % ny.m
        M  == IF r4 # 0 /\ q4 % 2 = 0 THEN q4 + 1 ELSE q4
    IN  RoundPack(s, M, nx.e - ny.e - 28)

\* x / y of two finite non-zero floats.
DivFin(x, y) ==
    CHOOSE r \in {DivNorm(nx, ny, (x.s + y.s) % 2) :
                     nx \in {Norm(x)}, ny \in {Norm(y)}} : TRUE

\* x / y.  A zero divisor gives what IEEE-754 gives: an infinity, or a NaN
\* for 0/0.
DivVal(x, y) ==
    IF x.k = "nan" \/ y.k = "nan" THEN NaN
    ELSE IF x.k = "inf"
         THEN IF y.k = "inf" THEN NaN ELSE Inf((x.s + y.s) % 2)
    ELSE IF y.k = "inf" THEN Zero((x.s + y.s) % 2)
    ELSE IF y.m = 0
         THEN IF x.m = 0 THEN NaN ELSE Inf((x.s + y.s) % 2)
    ELSE IF x.m = 0 THEN Zero((x.s + y.s) % 2)
    ELSE DivFin(x, y)

\* x / y on the values of its arguments, each computed once.
FDiv(x, y) == CHOOSE r \in {DivVal(x1, y1) : x1 \in {x}, y1 \in {y}} : TRUE

\* x < y on finite floats.
FLess(x, y) ==
    LET Key(z) == IF z.s = 1 THEN << -z.e, -z.m >> ELSE << z.e, z.m >>
        kx == Key(x)
        ky == Key(y)
    IN  IF x.m = 0 /\ y.m = 0 THEN FALSE
        ELSE IF x.m = 0 THEN y.s = 0
        ELSE IF y.m = 0 THEN x.s = 1
        ELSE IF x.s # y.s THEN x.s = 1
        ELSE kx[1] < ky[1] \/ (kx[1] = ky[1] /\ kx[2] < ky[2])


(***************************************************************************)
(* Strings are sequences of one-character strings.  atoi and atof are the  *)
(* C conversions on the characters the inputs below are made of: blanks,   *)
(* signs, decimal digits, the decimal point, and a letter that is part of  *)
(* no number.                                                              *)
(***************************************************************************)
Digits == << "0", "1", "2", "3", "4", "5", "6", "7", "8", "9" >>

IsDigit(c) == \E d \in 1..10 : Digits[d] = c

DigitVal(c) == (CHOOSE d \in 1..10 : Digits[d] = c) - 1

RECURSIVE SkipSpace(_)
\* The string without its leading white space.
SkipSpace(str) ==
    IF str # << >> /\ Head(str) = " " THEN SkipSpace(Tail(str)) ELSE str

\* The sign a number starts with, and the string after it.
ReadSign(str) ==
    IF str # << >> /\ Head(str) = "-" THEN [neg |-> TRUE, rest |-> Tail(str)]
    ELSE IF str # << >> /\ Head(str) = "+" THEN [neg |-> FALSE, rest |-> Tail(str)]
    ELSE [neg |-> FALSE, rest |-> str]

RECURSIVE ReadDigits(_, _, _)
\* The longest run of digits str starts with: its value after the digits
\* already read (acc), how many digits it has (cnt added), and what follows.
ReadDigits(str, acc, cnt) ==
    IF str # << >> /\ IsDigit(Head(str))
    THEN ReadDigits(Tail(str), acc * 10 + DigitVal(Head(str)), cnt + 1)
    ELSE [val |-> acc, cnt |-> cnt, rest |-> str]

\* std::atoi: white space, an optional sign, digits up to the first
\* character that is none; 0 when there is no digit.
atoi(str) ==
    LET sg == ReadSign(SkipSpace(str))
        ds == ReadDigits(sg.rest, 0, 0)
    IN  IF sg.neg THEN -ds.val ELSE ds.val

\* std::atof, then the conversion of its double to float: white space, an
\* optional sign, digits, an optional point and digits; 0.0 when there is
\* no digit.  N / 10^k is rounded once, which is what the two roundings of
\* the program give for every input string of the model.
atof(str) ==
    LET sg == ReadSign(SkipSpace(str))
        ip == ReadDigits(sg.rest, 0, 0)
        fp == IF ip.rest # << >> /\ Head(ip.rest) = "."
              THEN ReadDigits(Tail(ip.rest), ip.val, 0)
              ELSE [val |-> ip.val, cnt |-> 0, rest |-> ip.rest]
        v  == FDiv(FromInt(fp.val), FromInt(10 ^ fp.cnt))
    IN  IF ip.cnt + fp.cnt = 0 THEN Zero(0)
        ELSE IF sg.neg THEN FNeg(v) ELSE v

(***************************************************************************)
(* The integrands, which the program links from a library that is not part *)
(* of the sources: stand-ins with the declared signature, deterministic,   *)
(* each different from the others.                                         *)
(***************************************************************************)
f1(x, intensity) == x

f2(x, intensity) == FMul(x, x)

f3(x, intensity) == FromInt(1)

f4(x, intensity) == FAdd(x, FromInt(intensity))

\* A call through a FuncPtr.
Apply(f, x, intensity) ==
    CASE f = "f1" -> f1(x, intensity)
      [] f = "f2" -> f2(x, intensity)
      [] f = "f3" -> f3(x, intensity)
      [] f = "f4" -> f4(x, intensity)

(***************************************************************************)
(* Bounds of the model and the inputs drawn within them.                   *)
(***************************************************************************)
\* Largest sample count of a bounded run.
MaxN == 3
\* Largest intensity.
MaxIntensity == 1
\* Largest function identifier written as a plain number on the command line.
MaxFunctionId == 5
\* Largest argc: the program name and up to MaxArgc - 1 arguments.
MaxArgc == 7

RECURSIVE NatStr(_)
\* The decimal digits of a natural number.
NatStr(v) ==
    IF v < 10 THEN << Digits[v + 1] >>
    ELSE Append(NatStr(v \div 10), Digits[(v % 10) + 1])

\* An int as the shell passes it.
IntStr(v) == IF v < 0 THEN << "-" >> \o NatStr(-v) ELSE NatStr(v)

ProgName == << "m", "a", "i", "n" >>

\* What argv[1] may be: the identifiers -1..MaxFunctionId, 7, and strings
\* atoi reads in part or not at all.
IdArgs ==
    {IntStr(v) : v \in -1..MaxFunctionId}
        \cup {<< "7" >>, << "z" >>, << "2", "z" >>, << " ", "+", "3" >>}

\* What argv[2] may be: the lower bound.
LowerArgs == {<< "0" >>, << "-", "1", ".", "5" >>, << "z" >>}

\* What argv[3] may be: the upper bound.
UpperArgs == {<< "1" >>, << "0", ".", "1" >>, << "0" >>}

\* What argv[4] may be: sample counts, zero and negative ones among them.
CountArgs == {IntStr(v) : v \in -2..MaxN} \cup {<< "z" >>}

\* What argv[5] may be.
IntensityArgs == {IntStr(v) : v \in 0..MaxIntensity}

\* The program name and five arguments.
FullArgs ==
    {<< ProgName, id, lo, hi, cnt, k >> :
        id \in IdArgs, lo \in LowerArgs, hi \in UpperArgs,
        cnt \in CountArgs, k \in IntensityArgs}

\* The argument vectors of c strings: fewer than five arguments, five, or
\* five and arguments the program does not read.
ArgVectors(c) ==
    {[j \in 1..c |-> IF j <= 6 THEN v[j] ELSE << "z" >>] : v \in FullArgs}

\* The literal 0.5f.
Half == Fin(0, Pow2(MantBits - 1), -MantBits)

\* The bounds of integration of a bounded call.
BoundValues == {FromInt(0), FromInt(1), FromInt(2), FromInt(-1), Half}

\* The function pointers there are.
FuncPtrs == {"f1", "f2", "f3", "f4"}

(***************************************************************************)
(* State.                                                                  *)
(***************************************************************************)
VARIABLES
    pc,            \* where the run is
    argc, argv,    \* main's parameters; argv[j] of the model is argv[j-1]
    functionId, a, b, n, intensity,   \* main's parsed arguments
    selectedFunc,  \* main's function pointer
    start, end, elapsed, result,      \* main's timing and result
    frame,         \* numericalIntegration's parameters and locals
    calls,         \* the integrand calls of the current numericalIntegration
    trace,         \* what the run did, in order
    out, err,      \* the lines on standard output and standard error
    exitCode,      \* main's return value
    todo, rets     \* the calls a caller other than main makes, and their returns

mainVars == << argc, argv, functionId, a, b, n, intensity, selectedFunc,
               start, end, elapsed, result, out, err, exitCode >>

vars == << pc, argc, argv, functionId, a, b, n, intensity, selectedFunc,
           start, end, elapsed, result, frame, calls, trace, out, err,
           exitCode, todo, rets >>

\* A frame that no call has filled yet.
NoFrame ==
    [f |-> "null", a |-> Zero(0), b |-> Zero(0), n |-> 0, intensity |-> 0,
     sum |-> Zero(0), dx |-> Zero(0), i |-> 0]

\* main's locals before their declarations are reached.
MainUnset ==
    /\ functionId = 0 /\ a = Zero(0) /\ b = Zero(0) /\ n = 0 /\ intensity = 0
    /\ selectedFunc = "null"
    /\ start = 0 /\ end = 0 /\ elapsed = 0 /\ result = Zero(0)

\* The process as it is started: argc strings, the program name first as a
\* hosted start passes it, nothing run, nothing written.
Init ==
    /\ pc = "Start"
    /\ argc \in 1..MaxArgc
    /\ argv \in ArgVectors(argc)
    /\ MainUnset
    /\ frame = NoFrame
    /\ calls = << >> /\ trace = << >>
    /\ out = << >> /\ err = << >>
    /\ exitCode = 0
    /\ todo = << >> /\ rets = << >>

(***************************************************************************)
(* numericalIntegration.                                                   *)
(***************************************************************************)
\* Mutant of Entry: the bounds are put in ascending order first.
EntrySorted(f, lo, hi, cnt, k) ==
    LET l == IF FLess(hi, lo) THEN hi ELSE lo
        h == IF FLess(hi, lo) THEN lo ELSE hi
    IN  [f |-> f, a |-> l, b |-> h, n |-> cnt, intensity |-> k,
         sum |-> Zero(0),
         dx |-> FDiv(FSub(h, l), FromInt(cnt)),
         i |-> 0]

\* The frame on entry: sum = 0.0f and dx = (b - a) / n.
Entry(f, lo, hi, cnt, k) ==
    [f |-> f, a |-> lo, b |-> hi, n |-> cnt, intensity |-> k,
     sum |-> Zero(0),
     dx |-> FDiv(FSub(hi, lo), FromInt(cnt)),
     i |-> 0]

\* Mutant of Midpoint: the left end of the interval, a + i * dx.
MidpointLeft(fr) == FAdd(fr.a, FMul(FromInt(fr.i), fr.dx))

\* Mutant of Midpoint: the intervals are taken from the last to the first.
MidpointDescending(fr) ==
    FAdd(fr.a, FMul(FAdd(FromInt(fr.n - 1 - fr.i), Half), fr.dx))

\* float x = a + (i + 0.5f) * dx
Midpoint(fr) ==
    FAdd(fr.a, FMul(FAdd(FromInt(fr.i), Half), fr.dx))

\* The integrand call of one iteration.
CallOf(fr) ==
    [f |-> fr.f, x |-> Midpoint(fr), k |-> fr.intensity,
     ret |-> Apply(fr.f, Midpoint(fr), fr.intensity)]

\* One iteration of the loop: sum += f(x, intensity); ++i.
LoopBody(fr) ==
    [fr EXCEPT !.sum = FAdd(fr.sum, CallOf(fr).ret), !.i = fr.i + 1]

\* Mutant of IntegResult: the sum is not scaled by dx.
IntegResultNoDx(fr) == fr.sum

\* return sum * dx
IntegResult(fr) == FMul(fr.sum, fr.dx)

\* Mutant of LoopIter: the loop's condition is i != n.
LoopIterNe ==
    /\ pc = "Loop"
    /\ frame.i # frame.n
    /\ frame' = LoopBody(frame)
    /\ calls' = Append(calls, CallOf(frame))
    /\ trace' = Append(trace, "f")
    /\ UNCHANGED << pc, mainVars, todo, rets >>

\* The loop's condition holds: one more integrand call.
LoopIter ==
    /\ pc = "Loop"
    /\ frame.i < frame.n
    /\ frame' = LoopBody(frame)
    /\ calls' = Append(calls, CallOf(frame))
    /\ trace' = Append(trace, "f")
    /\ UNCHANGED << pc, mainVars, todo, rets >>

\* The same iteration, for a run too long to keep every call of: the two
\* records of the run, calls and trace, are left as they are.
LoopIterUnrecorded ==
    /\ pc = "Loop"
    /\ frame.i < frame.n
    /\ frame' = LoopBody(frame)
    /\ UNCHANGED << pc, mainVars, calls, trace, todo, rets >>

(***************************************************************************)
(* main.                                                                   *)
(***************************************************************************)
\* What std::chrono::high_resolution_clock::now() returns: logical time,
\* the number of steps the run has made.
Now == Len(trace)

UsageMsg(prog) ==
    << "usage: ", prog, " <functionid> <a> <b> <n> <intensity>" >>

InvalidIdMsg == << "Error: Invalid function ID (must be 1, 2, 3, or 4)" >>

\* The runtime calls main(argc, argv).
Enter ==
    /\ pc = "Start"
    /\ pc' = "ValidateArgCount"
    /\ UNCHANGED << mainVars, frame, calls, trace, todo, rets >>

\* Mutant of CheckArgc: the count is compared with 5.
CheckArgcOffByOne ==
    /\ pc = "ValidateArgCount"
    /\ pc' = IF argc < 5 THEN "Usage" ELSE "ParseValues"
    /\ trace' = Append(trace, "argc")
    /\ UNCHANGED << mainVars, frame, calls, todo, rets >>

\* if (argc < 6)
CheckArgc ==
    /\ pc = "ValidateArgCount"
    /\ pc' = IF argc < 6 THEN "Usage" ELSE "ParseValues"
    /\ trace' = Append(trace, "argc")
    /\ UNCHANGED << mainVars, frame, calls, todo, rets >>

\* The usage message on standard error, and return -1.
Usage ==
    /\ pc = "Usage"
    /\ err' = Append(err, UsageMsg(argv[1]))
    /\ exitCode' = -1
    /\ pc' = "Exited"
    /\ trace' = Append(trace, "stderr")
    /\ UNCHANGED << argc, argv, functionId, a, b, n, intensity, selectedFunc,
                    start, end, elapsed, result, out, frame, calls, todo, rets >>

\* The five conversions of argv[1] .. argv[5].
ParseArgs ==
    /\ pc = "ParseValues"
    /\ functionId' = atoi(argv[2])
    /\ a' = atof(argv[3])
    /\ b' = atof(argv[4])
    /\ n' = atoi(argv[5])
    /\ intensity' = atoi(argv[6])
    /\ pc' = "ResolveFunction"
    /\ trace' = Append(trace, "parse")
    /\ UNCHANGED << argc, argv, selectedFunc, start, end, elapsed, result,
                    out, err, exitCode, frame, calls, todo, rets >>

\* Mutant of SwitchCase: the cases 2 and 3 select each other's function.
SwitchCaseSwapped(id) ==
    CASE id = 1 -> "f1"
      [] id = 2 -> "f3"
      [] id = 3 -> "f2"
      [] id = 4 -> "f4"
      [] OTHER -> "default"

\* Mutant of SwitchCase: any other identifier selects f1.
SwitchCaseDefaultF1(id) ==
    CASE id = 2 -> "f2"
      [] id = 3 -> "f3"
      [] id = 4 -> "f4"
      [] OTHER -> "f1"

\* The label switch (functionId) jumps to: a function, or default.
SwitchCase(id) ==
    CASE id = 1 -> "f1"
      [] id = 2 -> "f2"
      [] id = 3 -> "f3"
      [] id = 4 -> "f4"
      [] OTHER -> "default"

\* Mutant of Switch: the timer is started before the switch.
SwitchTimed ==
    /\ pc = "ResolveFunction"
    /\ IF SwitchCase(functionId) = "default"
       THEN pc' = "InvalidId" /\ UNCHANGED selectedFunc
       ELSE pc' = "ClockStart" /\ selectedFunc' = SwitchCase(functionId)
    /\ start' = Now
    /\ trace' = trace \o << "clock", "dispatch" >>
    /\ UNCHANGED << argc, argv, functionId, a, b, n, intensity, end,
                    elapsed, result, out, err, exitCode, frame, calls, todo,
                    rets >>

\* switch (functionId): selectedFunc is set, or the default branch taken.
Switch ==
    /\ pc = "ResolveFunction"
    /\ IF SwitchCase(functionId) = "default"
       THEN pc' = "InvalidId" /\ UNCHANGED selectedFunc
       ELSE pc' = "ClockStart" /\ selectedFunc' = SwitchCase(functionId)
    /\ trace' = Append(trace, "dispatch")
    /\ UNCHANGED << argc, argv, functionId, a, b, n, intensity, start, end,
                    elapsed, result, out, err, exitCode, frame, calls, todo,
                    rets >>

\* Mutant of InvalidId: the diagnostic is written, and the return is
\* missing.
InvalidIdNoReturn ==
    /\ pc = "InvalidId"
    /\ err' = Append(err, InvalidIdMsg)
    /\ pc' = "ClockStart"
    /\ trace' = Append(trace, "stderr")
    /\ UNCHANGED << argc, argv, functionId, a, b, n, intensity, selectedFunc,
                    start, end, elapsed, result, out, exitCode, frame, calls,
                    todo, rets >>

\* default: the diagnostic on standard error, and return -1.
InvalidId ==
    /\ pc = "InvalidId"
    /\ err' = Append(err, InvalidIdMsg)
    /\ exitCode' = -1
    /\ pc' = "Exited"
    /\ trace' = Append(trace, "stderr")
    /\ UNCHANGED << argc, argv, functionId, a, b, n, intensity, selectedFunc,
                    start, end, elapsed, result, out, frame, calls, todo, rets >>

\* auto start = now()
ClockStart ==
    /\ pc = "ClockStart"
    /\ start' = Now
    /\ pc' = "Call"
    /\ trace' = Append(trace, "clock")
    /\ UNCHANGED << argc, argv, functionId, a, b, n, intensity, selectedFunc,
                    end, elapsed, result, out, err, exitCode, frame, calls,
                    todo, rets >>

\* main calls numericalIntegration(selectedFunc, a, b, n, intensity).
Call ==
    /\ pc = "Call"
    /\ frame' = Entry(selectedFunc, a, b, n, intensity)
    /\ calls' = << >>
    /\ pc' = "Loop"
    /\ trace' = Append(trace, "enter")
    /\ UNCHANGED << mainVars, todo, rets >>

\* The loop ends and numericalIntegration returns into main's result.
Return ==
    /\ pc = "Loop"
    /\ ~(frame.i < frame.n)
    /\ result' = IntegResult(frame)
    /\ pc' = "ClockEnd"
    /\ trace' = Append(trace, "return")
    /\ UNCHANGED << argc, argv, functionId, a, b, n, intensity, selectedFunc,
                    start, end, elapsed, out, err, exitCode, frame, calls,
                    todo, rets >>

\* auto end = now(); elapsed = end - start
ClockEnd ==
    /\ pc = "ClockEnd"
    /\ end' = Now
    /\ elapsed' = Now - start
    /\ pc' = "Print"
    /\ trace' = Append(trace, "clock")
    /\ UNCHANGED << argc, argv, functionId, a, b, n, intensity, selectedFunc,
                    start, result, out, err, exitCode, frame, calls, todo,
                    rets >>

\* One line on standard output, the result and the elapsed time, and
\* return 0.  The line is kept as the two numbers it renders.
PrintResult ==
    /\ pc = "Print"
    /\ out' = Append(out, [result |-> result, elapsed |-> elapsed])
    /\ exitCode' = 0
    /\ pc' = "Exited"
    /\ trace' = Append(trace, "stdout")
    /\ UNCHANGED << argc, argv, functionId, a, b, n, intensity, selectedFunc,
                    start, end, elapsed, result, err, frame, calls, todo,
                    rets >>

Next ==
    \/ Enter
    \/ CheckArgc
    \/ Usage
    \/ ParseArgs
    \/ Switch
    \/ InvalidId
    \/ ClockStart
    \/ Call
    \/ LoopIter
    \/ Return
    \/ ClockEnd
    \/ PrintResult

\* One run of the program.
Spec == Init /\ [][Next]_vars

\* A run of the program that is scheduled until it exits: the process is a
\* single thread, and every statement and every integrand call returns.
FairSpec == Spec /\ WF_vars(Next)

(***************************************************************************)
(* numericalIntegration on its own: a caller that makes the calls of todo  *)
(* one after the other and keeps what each returned.                       *)
(***************************************************************************)
Request(f, lo, hi, cnt, k) ==
    [f |-> f, a |-> lo, b |-> hi, n |-> cnt, intensity |-> k]

\* The next call of todo is made.
HCall ==
    /\ pc = "Idle"
    /\ Len(rets) < Len(todo)
    /\ LET r == todo[Len(rets) + 1]
       IN  frame' = Entry(r.f, r.a, r.b, r.n, r.intensity)
    /\ calls' = << >>
    /\ pc' = "Loop"
    /\ trace' = Append(trace, "enter")
    /\ UNCHANGED << mainVars, todo, rets >>

\* The loop ends and numericalIntegration returns to the caller.
HReturn ==
    /\ pc = "Loop"
    /\ ~(frame.i < frame.n)
    /\ rets' = Append(rets, [frame |-> frame, ncalls |-> Len(calls),
                             result |-> IntegResult(frame)])
    /\ pc' = "Idle"
    /\ trace' = Append(trace, "return")
    /\ UNCHANGED << mainVars, frame, calls, todo >>

NextH ==
    \/ HCall
    \/ LoopIter
    \/ HReturn

\* No main: the variables of main stay as they are.
InitH ==
    /\ pc = "Idle"
    /\ argc = 0 /\ argv = << >>
    /\ MainUnset
    /\ frame = NoFrame
    /\ calls = << >> /\ trace = << >>
    /\ out = << >> /\ err = << >>
    /\ exitCode = 0
    /\ rets = << >>

\* A call with bounds (a, b) and then the call with the bounds reversed, for
\* every integrand, bounds, sample count 1..MaxN and intensity of the model.
InitInteg ==
    /\ InitH
    /\ \E f \in FuncPtrs, lo \in BoundValues, hi \in BoundValues,
          cnt \in 1..MaxN, k \in 0..MaxIntensity :
          todo = << Request(f, lo, hi, cnt, k), Request(f, hi, lo, cnt, k) >>

SpecInteg == InitInteg /\ [][NextH]_vars

\* f(x, k) = x over [0, 1] with n = 10 and then with n = 10000.
InitConv ==
    /\ InitH
    /\ todo = << Request("f1", FromInt(0), FromInt(1), 10, 0),
                 Request("f1", FromInt(0), FromInt(1), 10000, 0) >>

NextConv ==
    \/ HCall
    \/ LoopIterUnrecorded
    \/ HReturn

SpecConv == InitConv /\ [][NextConv]_vars

(***************************************************************************)
(* Properties.                                                             *)
(***************************************************************************)
\* The places of event ev in the trace.
Places(ev) == {j \in 1..Len(trace) : trace[j] = ev}

\* The functionId the command line gives.
GivenId == atoi(argv[2])

\* The sample count the command line gives.
GivenN == atoi(argv[5])

\* The i-th midpoint of a request, written out from the request alone.
RefMid(r, i) ==
    FAdd(r.a, FMul(FAdd(FromInt(i), Half), FDiv(FSub(r.b, r.a), FromInt(r.n))))

RECURSIVE RefSum(_, _)
\* The integrand values at the midpoints 0 .. j-1 of a request, added from
\* the left.
RefSum(r, j) ==
    IF j = 0 THEN Zero(0)
    ELSE FAdd(RefSum(r, j - 1), Apply(r.f, RefMid(r, j - 1), r.intensity))

\* C1: for n >= 1 numericalIntegration returns sum * dx, where
\* dx = (b - a) / n and sum is the total of f(a + (i + 0.5) * dx, k) over
\* 0 <= i < n.
C1_MidpointRule ==
    \A j \in 1..Len(rets) :
        todo[j].n >= 1 =>
            rets[j].result =
                FMul(RefSum(todo[j], todo[j].n),
                     FDiv(FSub(todo[j].b, todo[j].a), FromInt(todo[j].n)))

\* A call of x*x over [0, 2] with three samples has returned a non-zero
\* result.
C1_Witness ==
    /\ Len(rets) >= 1
    /\ todo[1] = Request("f2", FromInt(0), FromInt(2), 3, 0)
    /\ ~IsZero(rets[1].result)

\* C2: in a run that reaches integration the integrand called is the one
\* functionId names (1: f1, 2: f2, 3: f3, 4: f4), and no other is called.
C2_Dispatch ==
    (frame # NoFrame \/ calls # << >>) =>
        /\ functionId \in 1..4
        /\ frame.f = << "f1", "f2", "f3", "f4" >>[functionId]
        /\ \A j \in 1..Len(calls) :
               calls[j].f = << "f1", "f2", "f3", "f4" >>[functionId]

\* A run with functionId 4 has exited after three calls of f4.
C2_Witness ==
    /\ pc = "Exited"
    /\ functionId = 4
    /\ Len(calls) = 3
    /\ \A j \in 1..3 : calls[j].f = "f4"

\* With five arguments or more and a functionId outside {1,2,3,4}: no
\* integrand is called, no function is selected, nothing is on standard
\* output, and a run that has exited has written the diagnostic, and nothing
\* else, to standard error and returned -1.
C3_Safe ==
    (argc >= 6 /\ GivenId \notin 1..4) =>
        /\ calls = << >>
        /\ frame = NoFrame
        /\ selectedFunc = "null"
        /\ Places("f") = {}
        /\ out = << >>
        /\ pc = "Exited" => err = << InvalidIdMsg >> /\ exitCode = -1

\* C3: every run with five arguments or more and a functionId outside
\* {1,2,3,4} (0, 5, 7, negative ones) writes the invalid-function-ID
\* diagnostic to standard error and exits with -1; it never calls an
\* integrand, never falls back to a default one, and writes nothing to
\* standard output.
C3_InvalidId ==
    /\ []C3_Safe
    /\ (argc >= 6 /\ GivenId \notin 1..4)
           ~> (pc = "Exited" /\ err = << InvalidIdMsg >> /\ exitCode = -1)

\* A run with functionId -1 has exited with the diagnostic.
C3_Witness ==
    /\ pc = "Exited"
    /\ argc >= 6
    /\ GivenId = -1
    /\ err = << InvalidIdMsg >>

\* With fewer than five arguments: no value is parsed, no integrand is
\* called, nothing is on standard output, the invalid-function-ID diagnostic
\* is not written, and a run that has exited has written the usage message
\* to standard error and returned -1.
C4_Safe ==
    argc < 6 =>
        /\ pc \in {"Start", "ValidateArgCount", "Usage", "Exited"}
        /\ MainUnset
        /\ Places("parse") = {}
        /\ calls = << >>
        /\ frame = NoFrame
        /\ out = << >>
        /\ \A j \in 1..Len(err) : err[j] # InvalidIdMsg
        /\ pc = "Exited" => err = << UsageMsg(argv[1]) >> /\ exitCode = -1

\* C4: every run with fewer than five arguments, whatever the arguments
\* are, writes the usage message to standard error and exits with -1 before
\* any value is parsed: no integrand is called, nothing is written to
\* standard output, and the invalid-function-ID diagnostic is not written.
C4_UsageGate ==
    /\ []C4_Safe
    /\ (argc < 6)
           ~> (pc = "Exited" /\ err = << UsageMsg(argv[1]) >> /\ exitCode = -1)

\* A run with the single argument 7, which is no function identifier, has
\* exited with the usage message.
C4_Witness ==
    /\ pc = "Exited"
    /\ argc = 2
    /\ argv[2] = << "7" >>
    /\ err = << UsageMsg(ProgName) >>

\* The stage of the pipeline the run is in.  The start of the timer opens
\* Integrate, the end of the timer is Measure.
StageOf(p, code) ==
    CASE p = "Start" -> "Start"
      [] p = "ValidateArgCount" -> "ValidateArgCount"
      [] p = "ParseValues" -> "ParseValues"
      [] p = "ResolveFunction" -> "ResolveFunction"
      [] p \in {"Usage", "InvalidId"} -> "Fail"
      [] p \in {"ClockStart", "Call", "Loop"} -> "Integrate"
      [] p = "ClockEnd" -> "Measure"
      [] p = "Print" -> "Render"
      [] p = "Exited" -> IF code = 0 THEN "Exit(0)" ELSE "Exit(-1)"

\* The two orders of the pipeline.
FailOrder ==
    << "Start", "ValidateArgCount", "ParseValues", "ResolveFunction", "Fail",
       "Exit(-1)" >>

SuccessOrder ==
    << "Start", "ValidateArgCount", "ParseValues", "ResolveFunction",
       "Integrate", "Measure", "Render", "Exit(0)" >>

\* Stage s comes before stage t in the order.
Before(order, s, t) ==
    \E j, h \in 1..Len(order) : j < h /\ order[j] = s /\ order[h] = t

\* A step that changes the stage goes forward in one of the two orders, so
\* that no stage is entered again once it was left.
C5_Forward ==
    StageOf(pc', exitCode') # StageOf(pc, exitCode) =>
        \/ Before(FailOrder, StageOf(pc, exitCode), StageOf(pc', exitCode'))
        \/ Before(SuccessOrder, StageOf(pc, exitCode), StageOf(pc', exitCode'))

\* What was done on the way to an exit.  Exit(0): the argument count was
\* validated, the values were parsed and the function resolved, each once
\* and in this order, numericalIntegration was called and returned once,
\* and one line was written to standard output, after the return.
\* Exit(-1): no integration at all and nothing on standard output.
C5_Exits ==
    /\ \A ev \in {"argc", "parse", "dispatch", "enter", "return", "stdout",
                  "stderr"} : Cardinality(Places(ev)) <= 1
    /\ (pc = "Exited" /\ exitCode = 0) =>
           /\ \A ev \in {"argc", "parse", "dispatch", "enter", "return",
                         "stdout"} : Cardinality(Places(ev)) = 1
           /\ \A j \in Places("argc"), h \in Places("parse") : j < h
           /\ \A j \in Places("parse"), h \in Places("dispatch") : j < h
           /\ \A j \in Places("dispatch"), h \in Places("enter") : j < h
           /\ \A j \in Places("enter"), h \in Places("return") : j < h
           /\ \A j \in Places("return"), h \in Places("stdout") : j < h
           /\ Len(out) = 1
           /\ out[1].result = result
           /\ err = << >>
    /\ (pc = "Exited" /\ exitCode # 0) =>
           /\ exitCode = -1
           /\ Places("enter") = {} /\ Places("f") = {}
           /\ calls = << >> /\ frame = NoFrame
           /\ out = << >>
    /\ pc # "Exited" => exitCode = 0 /\ out = << >>

\* C5: a run is a linear, single-shot pipeline.  Its stages occur only in
\* the order Start, ValidateArgCount, ParseValues, ResolveFunction, then
\* Fail and Exit(-1), or Integrate, Measure, Render and Exit(0); no stage is
\* entered twice; the run ends in one of the two exit states and stays
\* there; Exit(0) is reached only after Integrate and Render happened once
\* each, with one line on standard output; Exit(-1) is reached only with no
\* integration and nothing on standard output.
C5_Pipeline ==
    /\ [][C5_Forward]_vars
    /\ []C5_Exits
    /\ <>[](pc = "Exited" /\ exitCode \in {0, -1})

\* Both exits are reached: a run has exited with 0 after two integrand
\* calls and one line of output.
C5_Witness ==
    /\ pc = "Exited"
    /\ exitCode = 0
    /\ Len(calls) = 2
    /\ Len(out) = 1

\* C6 as it is stated: the result of the call with the bounds reversed is
\* the negation of the result of the call.
C6_ReversalExact ==
    Len(rets) = 2 => FEq(rets[1].result, FNeg(rets[2].result))

\* C6, amended: reversing the bounds negates the step dx exactly, and the
\* result exactly when the integrand is constant; for other integrands the
\* two results are negations of each other only up to rounding, as the
\* reversed call computes its midpoints from b and adds them in the
\* opposite order.
C6_ReversalStep ==
    Len(rets) = 2 =>
        /\ FEq(rets[2].frame.dx, FNeg(rets[1].frame.dx))
        /\ todo[1].f = "f3" => FEq(rets[1].result, FNeg(rets[2].result))

\* The constant integrand over [-1, 2] and over [2, -1], three samples: the
\* results are 3 and -3.
C6_Witness ==
    /\ Len(rets) = 2
    /\ todo[1] = Request("f3", FromInt(-1), FromInt(2), 3, 0)
    /\ rets[1].result = FromInt(3)
    /\ rets[2].result = FromInt(-3)

\* |r - 0.5|: the error of a result r against the integral of x over [0, 1].
\* The subtraction is exact for 0.25 <= r <= 1.
ErrorOf(r) == FAbs(FSub(r, Half))

\* C7 as it is stated: the error with n = 10 is strictly greater than the
\* error with n = 10000.
C7_ErrorShrinks ==
    Len(rets) = 2 => FLess(ErrorOf(rets[2].result), ErrorOf(rets[1].result))

\* C7, amended: for f(x, k) = x over [0, 1] the error does not shrink from
\* n = 10 to n = 10000.  The midpoint rule is exact for a linear integrand,
\* so only rounding is left: the result with n = 10 is exactly 0.5, and the
\* result with n = 10000 is within 2^-23 of 0.5, its error not less than
\* that with n = 10.
C7_ErrorDoesNotShrink ==
    /\ Len(rets) >= 1 => FEq(rets[1].result, Half)
    /\ Len(rets) = 2 =>
           /\ ~FLess(ErrorOf(rets[2].result), ErrorOf(rets[1].result))
           /\ ~FLess(Fin(0, Pow2(MantBits - 1), -2 * MantBits + 2),
                     ErrorOf(rets[2].result))

\* Both calls have returned, the second after 10000 iterations, with a
\* result that is not 0.5.
C7_Witness ==
    /\ Len(rets) = 2
    /\ todo[2].n = 10000
    /\ rets[1].frame.i = 10
    /\ rets[2].frame.i = 10000
    /\ ~FEq(rets[2].result, Half)

RECURSIVE SumOfCalls(_, _)
\* The values the first j calls returned, added from the left.
SumOfCalls(cs, j) ==
    IF j = 0 THEN Zero(0) ELSE FAdd(SumOfCalls(cs, j - 1), cs[j].ret)

\* C8: for n >= 1 a call of numericalIntegration makes exactly n integrand
\* calls in ascending order: the (i+1)-th is at a + (i + 0.5) * dx, each
\* gets the request's integrand and intensity, and the running sum after
\* the (i+1)-th is the sum, from the left, of the first i+1 values.
C8_CallOrder ==
    /\ pc = "Loop" =>
           LET r == todo[Len(rets) + 1]
           IN  /\ Len(calls) = frame.i
               /\ Len(calls) <= r.n
               /\ \A j \in 1..Len(calls) :
                      /\ calls[j].f = r.f
                      /\ calls[j].k = r.intensity
                      /\ calls[j].x = RefMid(r, j - 1)
                      /\ calls[j].ret = Apply(r.f, calls[j].x, r.intensity)
               /\ frame.sum = SumOfCalls(calls, Len(calls))
    /\ \A j \in 1..Len(rets) :
           /\ rets[j].ncalls = todo[j].n
           /\ Cardinality(Places("f")) >= rets[j].ncalls

\* The third call of f4 with intensity 1 has been made.
C8_Witness ==
    /\ pc = "Loop"
    /\ Len(calls) = 3
    /\ calls[3].f = "f4"
    /\ calls[3].k = 1
    /\ calls[1].x # calls[3].x

\* C9: in a successful run the clock is sampled twice, around the call of
\* numericalIntegration alone: the first sample comes after the parsing and
\* the dispatch and before every integrand call, the second after every
\* integrand call and before the output, and nothing but the call is between
\* them; a run that fails validation samples no clock.
C9_Timing ==
    LET C  == Places("clock")
        p1 == CHOOSE j \in C : \A h \in C : j <= h
        p2 == IF Cardinality(C) = 2
              THEN CHOOSE j \in C : \A h \in C : h <= j
              ELSE Len(trace) + 1
    IN  /\ Cardinality(C) <= 2
        /\ C = {} => Places("f") = {} /\ Places("enter") = {} /\ out = << >>
        /\ C # {} =>
               /\ \E j \in Places("parse") : j < p1
               /\ \E j \in Places("dispatch") : j < p1
               /\ \A j \in 1..(p1 - 1) :
                      trace[j] \in {"argc", "parse", "dispatch"}
               /\ \A j \in (p1 + 1)..(p2 - 1) :
                      trace[j] \in {"enter", "f", "return"}
               /\ \A j \in (p2 + 1)..Len(trace) : trace[j] = "stdout"
               /\ start = p1 - 1
               /\ Cardinality(C) = 2 =>
                      /\ Places("enter") # {} /\ Places("return") # {}
                      /\ end = p2 - 1
                      /\ elapsed = p2 - p1
        /\ (pc = "Exited" /\ exitCode = 0) =>
               Cardinality(C) = 2 /\ out[1].elapsed = elapsed
        /\ (pc \in {"Usage", "InvalidId"} \/ (pc = "Exited" /\ exitCode # 0)) =>
               C = {}

\* A run has exited with 0: two samples, three integrand calls between them.
C9_Witness ==
    /\ pc = "Exited"
    /\ exitCode = 0
    /\ Cardinality(Places("clock")) = 2
    /\ Cardinality(Places("f")) = 3

\* With five arguments or more, a functionId in 1..4 and n <= 0: nothing is
\* written to standard error, no integrand is called, and a run that has
\* exited has called numericalIntegration, written one line to standard
\* output and returned 0.
C10_Safe ==
    (argc >= 6 /\ GivenId \in 1..4 /\ GivenN <= 0) =>
        /\ err = << >>
        /\ pc \notin {"Usage", "InvalidId"}
        /\ calls = << >>
        /\ Places("f") = {}
        /\ pc = "Exited" =>
               /\ exitCode = 0
               /\ Cardinality(Places("enter")) = 1
               /\ frame.n = GivenN
               /\ Len(out) = 1

\* C10: a sample count n <= 0 is never rejected: every run with five
\* arguments or more, a functionId in 1..4 and n <= 0 reports no error,
\* calls numericalIntegration, which calls no integrand, writes one result
\* line to standard output and exits with 0.
C10_NonPositiveCount ==
    /\ []C10_Safe
    /\ (argc >= 6 /\ GivenId \in 1..4 /\ GivenN <= 0)
           ~> (pc = "Exited" /\ exitCode = 0 /\ Len(out) = 1)

\* A run with n = 0 has exited with 0 and printed a NaN.
C10_Witness ==
    /\ pc = "Exited"
    /\ exitCode = 0
    /\ GivenN = 0
    /\ n = 0
    /\ Len(out) = 1
    /\ out[1].result = NaN

=============================================================================
